---- MODULE Spec2Model ----
(***************************************************************************)
(* Model of the job scheduler: WorkerScheduler.Schedule with its Kahn      *)
(* topological order, the CPM forward pass and backward trace, and the     *)
(* worker-constrained discrete-event simulation.                           *)
(*                                                                         *)
(* Task IDs are Go strings compared by sort.Strings / the < of strings.    *)
(* They are modelled as the integers 1, 2, 3, ... standing for the IDs     *)
(* "A", "B", "C", ... so that the integer order is the lexicographic       *)
(* order of the IDs.  NoID (0) stands for the empty string "".             *)
(* Go maps are modelled as functions whose DOMAIN is the set of keys       *)
(* present; a read of a missing key yields the zero value (MapGet).        *)
(* Every `for k := range m` over a map is a nondeterministic choice of an  *)
(* iteration order (Orderings).                                            *)
(***************************************************************************)
EXTENDS Integers, Sequences, FiniteSets, TLC

\* Bounds of the enumerated jobs.
MaxTasks == 3
MaxEdges == 3
MaxTotalDuration == 4

IDs == 1..MaxTasks
NoID == 0

----------------------------------------------------------------------------
\* Go maps

MapGet(m, k, zero) == IF k \in DOMAIN m THEN m[k] ELSE zero

MapPut(m, k, v) == [x \in (DOMAIN m) \cup {k} |-> IF x = k THEN v ELSE m[x]]

EmptyMap == [x \in {} |-> 0]

\* All orders in which a `range` over a map with key set S can visit the keys.
RECURSIVE Orderings(_)
Orderings(S) ==
    IF S = {} THEN {<<>>}
    ELSE UNION {{<<x>> \o s : s \in Orderings(S \ {x})} : x \in S}

SeqToSet(s) == {s[i] : i \in DOMAIN s}

----------------------------------------------------------------------------
\* sort.Strings: ascending order of the IDs.

RECURSIVE InsertSorted(_, _)
InsertSorted(x, s) ==
    IF s = <<>> THEN <<x>>
    ELSE IF x <= Head(s) THEN <<x>> \o s
    ELSE <<Head(s)>> \o InsertSorted(x, Tail(s))

RECURSIVE SortStrings(_)
SortStrings(s) ==
    IF s = <<>> THEN <<>> ELSE InsertSorted(Head(s), SortStrings(Tail(s)))

----------------------------------------------------------------------------
\* model.Task, model.Job

NewTask(id, duration, dependencies) ==
    [ID |-> id, Duration |-> duration, Dependencies |-> dependencies]

HasDependencies(task) == Len(task.Dependencies) > 0

TaskCount(j) == Cardinality(DOMAIN j.Tasks)

\* A job whose tasks are 1..Len(durs), built by NewJob and AddTask.
NewJob(name, durs, deps) ==
    [Name |-> name,
     Tasks |-> [id \in 1..Len(durs) |-> NewTask(id, durs[id], deps[id])]]

\* Dependency lists: sequences without repetition over S of length <= k.
RECURSIVE ListsUpTo(_, _)
ListsUpTo(S, k) ==
    IF k = 0 THEN {<<>>}
    ELSE {<<>>} \cup UNION {{<<x>> \o s : s \in ListsUpTo(S \ {x}, k - 1)} : x \in S}

\* Dependency lists of the tasks 1..k with at most `budget` edges in total.
\* A dependency may name the task itself or an ID that is no task of the job.
RECURSIVE DepAssignments(_, _)
DepAssignments(k, budget) ==
    IF k = 0 THEN {<<>>}
    ELSE UNION {{Append(f, l) : f \in DepAssignments(k - 1, budget - Len(l))}
                : l \in ListsUpTo(IDs, budget)}

\* Positive durations of the tasks 1..k that sum to at most `budget`.
RECURSIVE DurAssignments(_, _)
DurAssignments(k, budget) ==
    IF k = 0 THEN {<<>>}
    ELSE UNION {{Append(f, d) : f \in DurAssignments(k - 1, budget - d)}
                : d \in 1..(budget - (k - 1))}

\* The dependencies of a task as a set; no dependencies for an ID that is no task.
DepsOf(j, id) ==
    IF id \in DOMAIN j.Tasks THEN SeqToSet(j.Tasks[id].Dependencies) ELSE {}

\* The IDs reachable from the set S along dependency edges, S included.
RECURSIVE DepClosure(_, _)
DepClosure(j, S) ==
    LET T == S \cup UNION {DepsOf(j, id) : id \in S}
    IN IF T = S THEN S ELSE DepClosure(j, T)

\* What the scheduler assumes of its input: every dependency is a task of the job
\* and no task depends, directly or through other tasks, on itself.
AllResolve(j) == \A id \in DOMAIN j.Tasks : DepsOf(j, id) \subseteq DOMAIN j.Tasks
HasCycle(j) == \E id \in DOMAIN j.Tasks : id \in DepClosure(j, DepsOf(j, id))
IsValidDAG(j) == AllResolve(j) /\ ~HasCycle(j)

UnitDurations(n) == [i \in 1..n |-> 1]

\* Every valid DAG within the bounds with every duration assignment, and every
\* other dependency graph within the bounds (a cycle, a self-dependency, an
\* undefined dependency) with unit durations.
Jobs ==
    UNION {{j \in {NewJob("J", durs, deps) :
                       durs \in DurAssignments(n, MaxTotalDuration),
                       deps \in DepAssignments(n, MaxEdges)}
              : IsValidDAG(j) \/ j.Tasks = NewJob("J", UnitDurations(n),
                                  [id \in 1..n |-> j.Tasks[id].Dependencies]).Tasks}
           : n \in 1..MaxTasks}

\* The worked example of README.md and SOLUTION.md: A..F are 1..6.
ExampleJob ==
    NewJob("J", <<3, 2, 4, 5, 2, 3>>,
           << <<>>, <<>>, <<>>, <<1>>, <<2, 3>>, <<4, 5>> >>)

\* A job the greedy dispatch finishes at 5 with 2 workers and at 6 with 3:
\* A(1), B(1, {F}), C(1, {F}), D(2), E(4, {A}), F(1).
AnomalyJob ==
    NewJob("J", <<1, 1, 1, 2, 4, 1>>,
           << <<>>, <<6>>, <<6>>, <<>>, <<1>>, <<>> >>)

----------------------------------------------------------------------------
VARIABLES
    job, workers,              \* the arguments of Schedule
    pc, mode,                  \* position; which of scheduleUnlimited/Limited runs
    indegree, adjacency, queue, order,     \* topologicalOrder
    est, eft, minCompletion,   \* forward pass of scheduleUnlimited
    schedules, executionOrder, \* buildSortedSchedules and the execution order
    idx,                       \* position of the forward pass in order
    path, currentID,           \* findCriticalPath
    reverse, finished, startTime, ready, running, currentTime,  \* scheduleLimited
    executionOrderSorted,
    result, err                \* what Schedule returns

topoVars == <<indegree, adjacency, queue, order>>
cpmVars == <<est, eft, minCompletion, schedules, executionOrder, idx, path, currentID>>
simVars == <<reverse, finished, startTime, ready, running, currentTime,
             executionOrderSorted>>
vars == <<job, workers, pc, mode, topoVars, cpmVars, simVars, result, err>>

\* The nil *ScheduleResult.
NoResult == [nil |-> TRUE]

Init ==
    /\ job \in Jobs \cup {ExampleJob, AnomalyJob}
    /\ workers \in -1..(TaskCount(job) + 1)
    /\ pc = "Schedule"
    /\ mode = "none"
    /\ indegree = EmptyMap
    /\ adjacency = EmptyMap
    /\ queue = <<>>
    /\ order = <<>>
    /\ est = EmptyMap
    /\ eft = EmptyMap
    /\ minCompletion = 0
    /\ schedules = <<>>
    /\ executionOrder = <<>>
    /\ idx = 0
    /\ path = <<>>
    /\ currentID = NoID
    /\ reverse = EmptyMap
    /\ finished = EmptyMap
    /\ startTime = EmptyMap
    /\ ready = {}
    /\ running = <<>>
    /\ currentTime = 0
    /\ executionOrderSorted = <<>>
    /\ result = NoResult
    /\ err = "nil"

----------------------------------------------------------------------------
\* WorkerScheduler.Schedule: the worker check and the mode decision.

\* Mutant: the check written as `workers < 0`.
InvalidWorkersNegativeOnly(w) == w < 0

\* if workers <= 0 { return nil, error }
InvalidWorkers(w) == w <= 0

\* Mutant: the mode test written as `workers > job.TaskCount()`.
ScheduleUnlimitedOnlyAbove ==
    /\ pc = "Schedule"
    /\ IF InvalidWorkers(workers)
       THEN /\ err' = "workers"
            /\ pc' = "done"
            /\ mode' = mode
       ELSE /\ err' = err
            /\ pc' = "topo_build"
            /\ mode' = IF workers > TaskCount(job) THEN "unlimited" ELSE "limited"
    /\ UNCHANGED <<job, workers, topoVars, cpmVars, simVars, result>>

Schedule ==
    /\ pc = "Schedule"
    /\ IF InvalidWorkers(workers)
       THEN /\ err' = "workers"
            /\ pc' = "done"
            /\ mode' = mode
       ELSE /\ err' = err
            /\ pc' = "topo_build"
            /\ mode' = IF workers >= TaskCount(job) THEN "unlimited" ELSE "limited"
    /\ UNCHANGED <<job, workers, topoVars, cpmVars, simVars, result>>

----------------------------------------------------------------------------
\* topologicalOrder (Kahn's algorithm)

\* Mutant: the edge recorded in the wrong direction.
AddEdgeReversed(g, depID, id) ==
    [indegree  |-> [x \in DOMAIN g.indegree \cup {depID} |->
                       MapGet(g.indegree, x, 0) + (IF x = depID THEN 1 ELSE 0)],
     adjacency |-> MapPut(g.adjacency, id,
                          Append(MapGet(g.adjacency, id, <<>>), depID))]

\* adjacency[depID] = append(adjacency[depID], id); indegree[id]++
AddEdge(g, depID, id) ==
    [indegree  |-> [g.indegree EXCEPT ![id] = @ + 1],
     adjacency |-> MapPut(g.adjacency, depID,
                          Append(MapGet(g.adjacency, depID, <<>>), id))]

RECURSIVE AddTaskEdges(_, _, _)
AddTaskEdges(g, id, deps) ==
    IF deps = <<>> THEN g
    ELSE AddTaskEdges(AddEdge(g, Head(deps), id), id, Tail(deps))

\* The loop over job.Tasks visiting the tasks in the order iter.
RECURSIVE BuildGraph(_, _, _)
BuildGraph(g, j, iter) ==
    IF iter = <<>> THEN g
    ELSE BuildGraph(AddTaskEdges(g, Head(iter), j.Tasks[Head(iter)].Dependencies),
                    j, Tail(iter))

\* Mutant: the dependency list of every task sorted in place while the graph is
\* built.
TopoBuildGraphSortingDependencies ==
    /\ pc = "topo_build"
    /\ \E g \in {BuildGraph([indegree  |-> [id \in DOMAIN job.Tasks |-> 0],
                             adjacency |-> EmptyMap], job, iter)
                    : iter \in Orderings(DOMAIN job.Tasks)} :
         /\ indegree' = g.indegree
         /\ adjacency' = g.adjacency
    /\ job' = [job EXCEPT !.Tasks =
                  [id \in DOMAIN job.Tasks |->
                      [job.Tasks[id] EXCEPT !.Dependencies = SortStrings(@)]]]
    /\ pc' = "topo_seed"
    /\ UNCHANGED <<workers, mode, queue, order, cpmVars, simVars, result, err>>

TopoBuildGraph ==
    /\ pc = "topo_build"
    /\ \E g \in {BuildGraph([indegree  |-> [id \in DOMAIN job.Tasks |-> 0],
                             adjacency |-> EmptyMap], job, iter)
                    : iter \in Orderings(DOMAIN job.Tasks)} :
         /\ indegree' = g.indegree
         /\ adjacency' = g.adjacency
    /\ pc' = "topo_seed"
    /\ UNCHANGED <<job, workers, mode, queue, order, cpmVars, simVars, result, err>>

\* Mutant: the initial queue left in map order, without sort.Strings.
SeedQueueUnsorted(deg, iter) == SelectSeq(iter, LAMBDA id : deg[id] = 0)

\* The zero in-degree tasks, collected in map order and then sorted.
SeedQueue(deg, iter) == SortStrings(SelectSeq(iter, LAMBDA id : deg[id] = 0))

TopoSeedQueue ==
    /\ pc = "topo_seed"
    /\ queue' \in {SeedQueue(indegree, iter) : iter \in Orderings(DOMAIN indegree)}
    /\ order' = <<>>
    /\ pc' = "topo_loop"
    /\ UNCHANGED <<job, workers, mode, indegree, adjacency, cpmVars, simVars, result, err>>

\* Mutant: the queue not sorted again after the append.
EnqueueUnsorted(q, id) == Append(q, id)

\* queue = append(queue, neighbor); sort.Strings(queue)
Enqueue(q, id) == SortStrings(Append(q, id))

\* Mutant: every neighbor enqueued, whatever its remaining in-degree.
RECURSIVE RelaxAlwaysEnqueue(_, _)
RelaxAlwaysEnqueue(s, neighbors) ==
    IF neighbors = <<>> THEN s
    ELSE LET n == Head(neighbors)
         IN RelaxAlwaysEnqueue([indegree |-> [s.indegree EXCEPT ![n] = @ - 1],
                                queue    |-> SortStrings(Append(s.queue, n))],
                               Tail(neighbors))

\* The loop over the sorted neighbors of the task just removed.
RECURSIVE Relax(_, _)
Relax(s, neighbors) ==
    IF neighbors = <<>> THEN s
    ELSE LET n == Head(neighbors)
             d == s.indegree[n] - 1
         IN Relax([indegree |-> [s.indegree EXCEPT ![n] = d],
                   queue    |-> IF d = 0 THEN Enqueue(s.queue, n) ELSE s.queue],
                  Tail(neighbors))

\* One iteration of `for len(queue) > 0`.
TopoStep ==
    /\ pc = "topo_loop"
    /\ queue # <<>>
    /\ LET current == Head(queue)
           neighbors == SortStrings(MapGet(adjacency, current, <<>>))
           s == Relax([indegree |-> indegree, queue |-> Tail(queue)], neighbors)
       IN /\ order' = Append(order, current)
          /\ adjacency' = IF current \in DOMAIN adjacency
                          THEN [adjacency EXCEPT ![current] = neighbors]
                          ELSE adjacency
          /\ indegree' = s.indegree
          /\ queue' = s.queue
    /\ UNCHANGED <<job, workers, pc, mode, cpmVars, simVars, result, err>>

\* The length check that ends topologicalOrder, and the caller's `if err != nil`.
\* Mutant: the length check written as `len(order) > job.TaskCount()`.
TopoFailedOnlyIfLonger(ord, j) == Len(ord) > TaskCount(j)

\* if len(order) != job.TaskCount() { return nil, error }
TopoFailed(ord, j) == Len(ord) # TaskCount(j)

TopoReturn ==
    /\ pc = "topo_loop"
    /\ queue = <<>>
    /\ IF TopoFailed(order, job)
       THEN /\ err' = "cycle"
            /\ pc' = "done"
       ELSE /\ err' = err
            /\ pc' = IF mode = "unlimited" THEN "forward" ELSE "sim_init"
    /\ UNCHANGED <<job, workers, mode, topoVars, cpmVars, simVars, result>>

----------------------------------------------------------------------------
\* scheduleUnlimited: the CPM forward pass

\* Mutant: maxFinish overwritten by every dependency, without the comparison.
RECURSIVE MaxFinishLast(_, _, _)
MaxFinishLast(deps, f, maxFinish) ==
    IF deps = <<>> THEN maxFinish
    ELSE MaxFinishLast(Tail(deps), f, MapGet(f, Head(deps), 0))

\* Mutant: the finish times of the dependencies added up instead of compared.
RECURSIVE MaxFinishSum(_, _, _)
MaxFinishSum(deps, f, maxFinish) ==
    IF deps = <<>> THEN maxFinish
    ELSE MaxFinishSum(Tail(deps), f, maxFinish + MapGet(f, Head(deps), 0))

\* maxFinish := 0; for each dependency: if eft[depID] > maxFinish { maxFinish = eft[depID] }
RECURSIVE MaxFinish(_, _, _)
MaxFinish(deps, f, maxFinish) ==
    IF deps = <<>> THEN maxFinish
    ELSE LET e == MapGet(f, Head(deps), 0)
         IN MaxFinish(Tail(deps), f, IF e > maxFinish THEN e ELSE maxFinish)

EarliestStartOf(task, f) ==
    IF ~HasDependencies(task) THEN 0 ELSE MaxFinish(task.Dependencies, f, 0)

\* One iteration of `for _, id := range order`.
ForwardStep ==
    /\ pc = "forward"
    /\ idx < Len(order)
    /\ LET id == order[idx + 1]
           task == job.Tasks[id]
           start == EarliestStartOf(task, eft)
       IN /\ est' = MapPut(est, id, start)
          /\ eft' = MapPut(eft, id, start + task.Duration)
    /\ idx' = idx + 1
    /\ UNCHANGED <<job, workers, pc, mode, topoVars, minCompletion, schedules,
                   executionOrder, path, currentID, simVars, result, err>>

\* Mutant: minCompletion overwritten by every entry, without the comparison.
RECURSIVE MaxOverLast(_, _, _)
MaxOverLast(f, iter, m) ==
    IF iter = <<>> THEN m ELSE MaxOverLast(f, Tail(iter), f[Head(iter)])

\* minCompletion := 0; for _, f := range eft: if f > minCompletion { minCompletion = f }
RECURSIVE MaxOver(_, _, _)
MaxOver(f, iter, m) ==
    IF iter = <<>> THEN m
    ELSE MaxOver(f, Tail(iter), IF f[Head(iter)] > m THEN f[Head(iter)] ELSE m)

ComputeMinCompletion ==
    /\ pc = "forward"
    /\ idx >= Len(order)
    /\ minCompletion' \in {MaxOver(eft, iter, 0) : iter \in Orderings(DOMAIN eft)}
    /\ pc' = "build"
    /\ UNCHANGED <<job, workers, mode, topoVars, est, eft, schedules, executionOrder,
                   idx, path, currentID, simVars, result, err>>

\* Mutant: the records compared by finish time instead of start time.
ScheduleLessByFinish(a, b) ==
    IF a.EarliestFinish = b.EarliestFinish
    THEN a.TaskID < b.TaskID
    ELSE a.EarliestFinish < b.EarliestFinish

\* Mutant: the records compared by start time alone, ties left as they come.
ScheduleLessIgnoringID(a, b) == a.EarliestStart < b.EarliestStart

\* The comparison function given to sort.Slice.
ScheduleLess(a, b) ==
    IF a.EarliestStart = b.EarliestStart
    THEN a.TaskID < b.TaskID
    ELSE a.EarliestStart < b.EarliestStart

RECURSIVE InsertSchedule(_, _)
InsertSchedule(x, s) ==
    IF s = <<>> THEN <<x>>
    ELSE IF ScheduleLess(x, Head(s)) THEN <<x>> \o s
    ELSE <<Head(s)>> \o InsertSchedule(x, Tail(s))

RECURSIVE SortSchedules(_)
SortSchedules(s) ==
    IF s = <<>> THEN <<>> ELSE InsertSchedule(Head(s), SortSchedules(Tail(s)))

TaskSchedule(id, start, finish) ==
    [TaskID |-> id, EarliestStart |-> start, EarliestFinish |-> finish]

buildSortedSchedules(ord, s, f) ==
    SortSchedules([i \in 1..Len(ord) |->
                      TaskSchedule(ord[i], MapGet(s, ord[i], 0), MapGet(f, ord[i], 0))])

TaskIDsOf(scheds) == [i \in 1..Len(scheds) |-> scheds[i].TaskID]

BuildSchedules ==
    /\ pc = "build"
    /\ schedules' = buildSortedSchedules(order, est, eft)
    /\ executionOrder' = TaskIDsOf(schedules')
    /\ pc' = "find_end"
    /\ UNCHANGED <<job, workers, mode, topoVars, est, eft, minCompletion, idx,
                   path, currentID, simVars, result, err>>

----------------------------------------------------------------------------
\* findCriticalPath: the backward trace

\* for id, f := range eft { if f == minCompletion { endTaskID = id; break } }
EndTask(f, iter, m) ==
    LET hits == SelectSeq(iter, LAMBDA id : f[id] = m)
    IN IF hits = <<>> THEN NoID ELSE Head(hits)

FindEndTask ==
    /\ pc = "find_end"
    /\ \E endTaskID \in {EndTask(eft, iter, minCompletion)
                            : iter \in Orderings(DOMAIN eft)} :
         /\ path' = <<endTaskID>>
         /\ currentID' = endTaskID
    /\ pc' = "trace"
    /\ UNCHANGED <<job, workers, mode, topoVars, est, eft, minCompletion, schedules,
                   executionOrder, idx, simVars, result, err>>

\* Mutant: the first dependency taken, without the comparison of EFT and EST.
FirstDep(deps, s, f, cur) == IF deps = <<>> THEN NoID ELSE Head(deps)

\* Mutant: the EST of the dependency compared instead of its EFT.
RECURSIVE FirstCriticalDepByStart(_, _, _, _)
FirstCriticalDepByStart(deps, s, f, cur) ==
    IF deps = <<>> THEN NoID
    ELSE IF MapGet(s, Head(deps), 0) = MapGet(s, cur, 0) THEN Head(deps)
    ELSE FirstCriticalDepByStart(Tail(deps), s, f, cur)

\* The first dependency, in declared order, whose EFT equals the EST of cur; NoID if none.
RECURSIVE FirstCriticalDep(_, _, _, _)
FirstCriticalDep(deps, s, f, cur) ==
    IF deps = <<>> THEN NoID
    ELSE IF MapGet(f, Head(deps), 0) = MapGet(s, cur, 0) THEN Head(deps)
    ELSE FirstCriticalDep(Tail(deps), s, f, cur)

\* One iteration of the `for` of findCriticalPath.  job.Tasks[currentID] of an ID
\* that is no task is a nil *Task, and HasDependencies on it panics.
TraceStep ==
    /\ pc = "trace"
    /\ IF currentID \notin DOMAIN job.Tasks
       THEN /\ pc' = "panic"
            /\ UNCHANGED <<path, currentID>>
       ELSE LET task == job.Tasks[currentID]
                depID == FirstCriticalDep(task.Dependencies, est, eft, currentID)
            IN IF ~HasDependencies(task) \/ depID = NoID
               THEN /\ pc' = "return"
                    /\ UNCHANGED <<path, currentID>>
               ELSE /\ path' = <<depID>> \o path
                    /\ currentID' = depID
                    /\ pc' = pc
    /\ UNCHANGED <<job, workers, mode, topoVars, est, eft, minCompletion, schedules,
                   executionOrder, idx, simVars, result, err>>

ScheduleResult(name, w, completion, scheds, execOrder, critical) ==
    [JobName |-> name, Workers |-> w, MinCompletionTime |-> completion,
     TaskSchedules |-> scheds, ExecutionOrder |-> execOrder, CriticalPath |-> critical]

ReturnUnlimited ==
    /\ pc = "return"
    /\ result' = ScheduleResult(job.Name, workers, minCompletion, schedules,
                                executionOrder, path)
    /\ pc' = "done"
    /\ UNCHANGED <<job, workers, mode, topoVars, cpmVars, simVars, err>>

----------------------------------------------------------------------------
\* scheduleLimited: the discrete-event simulation

\* Mutant: the task recorded as a dependent of no task.
AddReverseNothing(r, id, deps) == r

\* Mutant: the task recorded as a dependent of its first dependency only.
AddReverseFirstOnly(r, id, deps) ==
    IF deps = <<>> THEN r
    ELSE MapPut(r, Head(deps), Append(MapGet(r, Head(deps), <<>>), id))

\* reverse[depID] = append(reverse[depID], id), tasks visited in the order iter.
RECURSIVE AddReverse(_, _, _)
AddReverse(r, id, deps) ==
    IF deps = <<>> THEN r
    ELSE AddReverse(MapPut(r, Head(deps), Append(MapGet(r, Head(deps), <<>>), id)),
                    id, Tail(deps))

RECURSIVE BuildReverse(_, _, _)
BuildReverse(r, j, iter) ==
    IF iter = <<>> THEN r
    ELSE BuildReverse(AddReverse(r, Head(iter), j.Tasks[Head(iter)].Dependencies),
                      j, Tail(iter))

SimInit ==
    /\ pc = "sim_init"
    /\ reverse' \in {BuildReverse(EmptyMap, job, iter)
                        : iter \in Orderings(DOMAIN job.Tasks)}
    /\ finished' = EmptyMap
    /\ startTime' = EmptyMap
    /\ ready' = {id \in DOMAIN job.Tasks : ~HasDependencies(job.Tasks[id])}
    /\ running' = <<>>
    /\ executionOrder' = <<>>
    /\ currentTime' = 0
    /\ pc' = "dispatch"
    /\ UNCHANGED <<job, workers, mode, topoVars, est, eft, minCompletion, schedules,
                   idx, path, currentID, executionOrderSorted, result, err>>

\* Mutant: the slot held one time unit longer than the task lasts.
SlotOneLate(id, finish) == [taskID |-> id, finishTime |-> finish + 1]

Slot(id, finish) == [taskID |-> id, finishTime |-> finish]

\* Mutant: the started task put at the front of executionOrder.
RECURSIVE AssignPrepending(_, _, _, _, _)
AssignPrepending(s, readyList, j, w, now) ==
    IF ~(Len(s.running) < w /\ Len(readyList) > 0) THEN s
    ELSE LET id == Head(readyList)
             finish == now + j.Tasks[id].Duration
         IN AssignPrepending([ready          |-> s.ready \ {id},
                              startTime      |-> MapPut(s.startTime, id, now),
                              running        |-> Append(s.running, Slot(id, finish)),
                              executionOrder |-> <<id>> \o s.executionOrder],
                             Tail(readyList), j, w, now)

\* Mutant: the last task of the sorted ready list taken instead of the first.
RECURSIVE AssignLargestFirst(_, _, _, _, _)
AssignLargestFirst(s, readyList, j, w, now) ==
    IF ~(Len(s.running) < w /\ Len(readyList) > 0) THEN s
    ELSE LET id == readyList[Len(readyList)]
             finish == now + j.Tasks[id].Duration
         IN AssignLargestFirst([ready          |-> s.ready \ {id},
                                startTime      |-> MapPut(s.startTime, id, now),
                                running        |-> Append(s.running, Slot(id, finish)),
                                executionOrder |-> Append(s.executionOrder, id)],
                               SubSeq(readyList, 1, Len(readyList) - 1), j, w, now)

\* Mutant: the loop condition written as `len(running) <= workers`.
RECURSIVE AssignOneTooMany(_, _, _, _, _)
AssignOneTooMany(s, readyList, j, w, now) ==
    IF ~(Len(s.running) <= w /\ Len(readyList) > 0) THEN s
    ELSE LET id == Head(readyList)
             finish == now + j.Tasks[id].Duration
         IN AssignOneTooMany([ready          |-> s.ready \ {id},
                              startTime      |-> MapPut(s.startTime, id, now),
                              running        |-> Append(s.running, Slot(id, finish)),
                              executionOrder |-> Append(s.executionOrder, id)],
                             Tail(readyList), j, w, now)

\* for len(running) < workers && len(readyList) > 0 { ... }
RECURSIVE Assign(_, _, _, _, _)
Assign(s, readyList, j, w, now) ==
    IF ~(Len(s.running) < w /\ Len(readyList) > 0) THEN s
    ELSE LET id == Head(readyList)
             finish == now + j.Tasks[id].Duration
         IN Assign([ready          |-> s.ready \ {id},
                    startTime      |-> MapPut(s.startTime, id, now),
                    running        |-> Append(s.running, Slot(id, finish)),
                    executionOrder |-> Append(s.executionOrder, id)],
                   Tail(readyList), j, w, now)

\* The ready tasks collected in map order, sorted, and assigned to the free workers.
SimDispatch ==
    /\ pc = "dispatch"
    /\ \E readyList \in {SortStrings(iter) : iter \in Orderings(ready)} :
         LET s == Assign([ready |-> ready, startTime |-> startTime,
                          running |-> running, executionOrder |-> executionOrder],
                         readyList, job, workers, currentTime)
         IN /\ ready' = s.ready
            /\ startTime' = s.startTime
            /\ running' = s.running
            /\ executionOrder' = s.executionOrder
    /\ pc' = "advance"
    /\ UNCHANGED <<job, workers, mode, topoVars, est, eft, minCompletion, schedules,
                   idx, path, currentID, reverse, finished, currentTime,
                   executionOrderSorted, result, err>>

\* Mutant: the comparison reversed, the largest finish time taken.
RECURSIVE MinFinishLargest(_, _)
MinFinishLargest(slots, m) ==
    IF slots = <<>> THEN m
    ELSE MinFinishLargest(Tail(slots),
                          IF Head(slots).finishTime > m THEN Head(slots).finishTime ELSE m)

\* Mutant: running[0].finishTime taken without the scan of the other slots.
MinFinishFirst(slots, m) == m

\* minFinish := running[0].finishTime; for the rest: if sl.finishTime < minFinish ...
RECURSIVE MinFinish(_, _)
MinFinish(slots, m) ==
    IF slots = <<>> THEN m
    ELSE MinFinish(Tail(slots),
                   IF Head(slots).finishTime < m THEN Head(slots).finishTime ELSE m)

\* `if len(running) == 0 { break }`, else the clock moves to the next completion.
SimAdvance ==
    /\ pc = "advance"
    /\ IF Len(running) = 0
       THEN /\ pc' = "sim_result"
            /\ currentTime' = currentTime
       ELSE /\ pc' = "complete"
            /\ currentTime' = MinFinish(Tail(running), running[1].finishTime)
    /\ UNCHANGED <<job, workers, mode, topoVars, cpmVars, reverse, finished,
                   startTime, ready, running, executionOrderSorted, result, err>>

\* Mutant: allDone set by the first dependency alone.
AllDoneFirstOnly(task, fin) ==
    Len(task.Dependencies) = 0 \/ task.Dependencies[1] \in DOMAIN fin

\* allDone: every dependency of the task is a key of finished.
AllDone(task, fin) ==
    \A i \in 1..Len(task.Dependencies) : task.Dependencies[i] \in DOMAIN fin

\* Mutant: every dependent of a finished task made ready, without the allDone test.
RECURSIVE ReleaseWithoutAllDone(_, _, _, _)
ReleaseWithoutAllDone(rdy, nexts, j, fin) ==
    IF nexts = <<>> THEN rdy
    ELSE ReleaseWithoutAllDone(rdy \cup {Head(nexts)}, Tail(nexts), j, fin)

\* for _, nextID := range reverse[sl.taskID] { if allDone { ready[nextID] = true } }
RECURSIVE Release(_, _, _, _)
Release(rdy, nexts, j, fin) ==
    IF nexts = <<>> THEN rdy
    ELSE Release(IF AllDone(j.Tasks[Head(nexts)], fin) THEN rdy \cup {Head(nexts)} ELSE rdy,
                 Tail(nexts), j, fin)

\* Mutant: `sl.finishTime >= currentTime`, every running slot completed at once.
RECURSIVE CompleteAtOrAfter(_, _, _, _, _)
CompleteAtOrAfter(s, slots, j, rev, now) ==
    IF slots = <<>> THEN s
    ELSE LET sl == Head(slots)
             fin == MapPut(s.finished, sl.taskID, now)
         IN CompleteAtOrAfter([finished   |-> fin,
                               ready      |-> Release(s.ready,
                                                      MapGet(rev, sl.taskID, <<>>),
                                                      j, fin),
                               newRunning |-> s.newRunning],
                              Tail(slots), j, rev, now)

\* The loop over running that completes every slot finishing at now.
RECURSIVE Complete(_, _, _, _, _)
Complete(s, slots, j, rev, now) ==
    IF slots = <<>> THEN s
    ELSE LET sl == Head(slots)
         IN IF sl.finishTime = now
            THEN LET fin == MapPut(s.finished, sl.taskID, now)
                 IN Complete([finished   |-> fin,
                              ready      |-> Release(s.ready, MapGet(rev, sl.taskID, <<>>),
                                                     j, fin),
                              newRunning |-> s.newRunning],
                             Tail(slots), j, rev, now)
            ELSE Complete([s EXCEPT !.newRunning = Append(@, sl)],
                          Tail(slots), j, rev, now)

SimComplete ==
    /\ pc = "complete"
    /\ LET s == Complete([finished |-> finished, ready |-> ready, newRunning |-> <<>>],
                         running, job, reverse, currentTime)
       IN /\ finished' = s.finished
          /\ ready' = s.ready
          /\ running' = s.newRunning
    /\ pc' = "dispatch"
    /\ UNCHANGED <<job, workers, mode, topoVars, cpmVars, reverse, startTime,
                   currentTime, executionOrderSorted, result, err>>

\* Mutant: the records left in map order, without the sort.
LimitedSchedulesUnsorted(st, fin, iter) ==
    [i \in 1..Len(iter) |-> TaskSchedule(iter[i], st[iter[i]], MapGet(fin, iter[i], 0))]

\* The records built from startTime in map order and sorted by (start, ID).
LimitedSchedules(st, fin, iter) ==
    SortSchedules([i \in 1..Len(iter) |->
                      TaskSchedule(iter[i], st[iter[i]], MapGet(fin, iter[i], 0))])

ReturnLimited ==
    /\ pc = "sim_result"
    /\ \E scheds \in {LimitedSchedules(startTime, finished, iter)
                         : iter \in Orderings(DOMAIN startTime)} :
         /\ schedules' = scheds
         /\ executionOrderSorted' = TaskIDsOf(schedules')
         /\ result' = ScheduleResult(job.Name, workers, currentTime, schedules',
                                     executionOrderSorted', <<>>)
    /\ pc' = "done"
    /\ UNCHANGED <<job, workers, mode, topoVars, est, eft, minCompletion,
                   executionOrder, idx, path, currentID, reverse, finished, startTime,
                   ready, running, currentTime, err>>

Next ==
    \/ Schedule
    \/ TopoBuildGraph
    \/ TopoSeedQueue
    \/ TopoStep
    \/ TopoReturn
    \/ ForwardStep
    \/ ComputeMinCompletion
    \/ BuildSchedules
    \/ FindEndTask
    \/ TraceStep
    \/ ReturnUnlimited
    \/ SimInit
    \/ SimDispatch
    \/ SimAdvance
    \/ SimComplete
    \/ ReturnLimited

Spec == Init /\ [][Next]_vars

----------------------------------------------------------------------------
\* Vocabulary of the properties

TaskIDs == DOMAIN job.Tasks

SetMax(S) == CHOOSE x \in S : \A y \in S : y <= x
SetMin(S) == CHOOSE x \in S : \A y \in S : x <= y

NoDuplicates(s) == \A i, k \in DOMAIN s : s[i] = s[k] => i = k

IndexOf(s, x) == CHOOSE i \in DOMAIN s : s[i] = x

RECURSIVE SumDurations(_, _)
SumDurations(j, s) ==
    IF s = <<>> THEN 0 ELSE j.Tasks[Head(s)].Duration + SumDurations(j, Tail(s))

\* topologicalOrder has been called and has returned.
TopoPCs == {"Schedule", "topo_build", "topo_seed", "topo_loop"}
TopoReturned == mode # "none" /\ pc \notin TopoPCs

\* Positions inside the forward pass, the backward trace and the event loop.
EnginePCs == {"forward", "build", "find_end", "trace", "return", "panic",
              "sim_init", "dispatch", "advance", "complete", "sim_result"}

\* Schedule has returned a result of the CPM engine.
CpmDone == pc = "done" /\ mode = "unlimited" /\ err = "nil"

\* The timing records of task id in a result.
RecordsOf(r, id) ==
    {r.TaskSchedules[i] : i \in {k \in DOMAIN r.TaskSchedules :
                                     r.TaskSchedules[k].TaskID = id}}
StartIn(r, id) == (CHOOSE rec \in RecordsOf(r, id) : TRUE).EarliestStart
FinishIn(r, id) == (CHOOSE rec \in RecordsOf(r, id) : TRUE).EarliestFinish
OneRecordPerTask(r) ==
    /\ Len(r.TaskSchedules) = Cardinality(TaskIDs)
    /\ \A id \in TaskIDs : Cardinality(RecordsOf(r, id)) = 1

\* The order Kahn's algorithm yields when it always removes the smallest eligible
\* ID, defined on the dependency relation alone.
RECURSIVE LexTopo(_, _)
LexTopo(j, out) ==
    LET eligible == {id \in DOMAIN j.Tasks \ SeqToSet(out) :
                        DepsOf(j, id) \subseteq SeqToSet(out)}
    IN IF eligible = {} THEN out ELSE LexTopo(j, Append(out, SetMin(eligible)))

----------------------------------------------------------------------------
\* C1: for every valid DAG topologicalOrder returns no error and an order that
\* holds every task ID of the job exactly once, every dependency of a task
\* standing before the task.
C1_TopoOrderIsPermutationRespectingDeps ==
    (TopoReturned /\ IsValidDAG(job)) =>
        /\ err = "nil"
        /\ Len(order) = Cardinality(TaskIDs)
        /\ SeqToSet(order) = TaskIDs
        /\ NoDuplicates(order)
        /\ \A x \in TaskIDs : \A y \in DepsOf(job, x) :
               IndexOf(order, y) < IndexOf(order, x)

C1_Witness ==
    /\ IsValidDAG(job) /\ TopoReturned
    /\ Len(order) = 3
    /\ \E x \in TaskIDs : Cardinality(DepsOf(job, x)) = 2

\* C2: whenever topologicalOrder removes a task, the task is the smallest ID among
\* the tasks with zero remaining in-degree not yet output; the order returned is
\* the one fixed by the dependency relation alone, whatever order the maps were
\* iterated in.
C2_TopoOrderIsLexSmallestFirst ==
    /\ (pc = "topo_loop" /\ queue # <<>>) =>
           Head(queue) = SetMin({id \in DOMAIN indegree :
                                    indegree[id] = 0 /\ id \notin SeqToSet(order)})
    /\ TopoReturned => order = LexTopo(job, <<>>)

C2_Witness ==
    /\ pc = "topo_loop"
    /\ Len(queue) >= 2
    /\ order # <<>>
    /\ \E id \in SeqToSet(queue) : DepsOf(job, id) # {} /\ id < queue[Len(queue)]

\* C3: for a job with a dependency cycle and a positive worker count, Schedule
\* returns the cycle error and no result, and neither the forward pass nor the
\* simulation loop is entered.
C3_CycleYieldsErrorAndNoResult ==
    (HasCycle(job) /\ workers > 0) =>
        /\ pc \notin EnginePCs
        /\ result = NoResult
        /\ (pc = "done" => err = "cycle")

C3_Witness ==
    /\ HasCycle(job) /\ AllResolve(job)
    /\ mode = "limited"
    /\ pc = "done" /\ err = "cycle"
    /\ order # <<>>

\* C4: topologicalOrder terminates on every job, cyclic or not: no task is in the
\* queue or in the order more than once nor in both, every iteration of the loop
\* appends the one task it removes from the queue, and the order never holds more
\* than TaskCount tasks; so the loop, which runs while the queue is not empty and
\* returns when it is, is left after at most TaskCount removals.
C4_TopoTerminates ==
    /\ [](/\ NoDuplicates(order \o queue)
          /\ SeqToSet(order \o queue) \subseteq TaskIDs
          /\ Len(order) + Len(queue) <= Cardinality(TaskIDs))
    /\ [][(pc = "topo_loop" /\ pc' = "topo_loop") =>
              /\ queue # <<>>
              /\ order' = Append(order, Head(queue))]_vars

C4_Witness ==
    /\ HasCycle(job)
    /\ pc = "done" /\ err = "cycle"
    /\ Len(order) = 2
    /\ \E id \in TaskIDs : id \notin SeqToSet(order) /\ indegree[id] = 1
                              /\ Len(job.Tasks[id].Dependencies) = 2

\* C5: for a worker count <= 0 Schedule returns the invalid-worker-count error and
\* no result, and no step of ordering or scheduling runs, whatever the graph.
C5_NonPositiveWorkersRejectedFirst ==
    workers <= 0 =>
        /\ pc \in {"Schedule", "done"}
        /\ mode = "none"
        /\ indegree = EmptyMap /\ adjacency = EmptyMap /\ order = <<>>
        /\ result = NoResult
        /\ (pc = "done" => err = "workers")

C5_Witness ==
    /\ workers <= 0
    /\ HasCycle(job)
    /\ pc = "done" /\ err = "workers"

\* C6: in the CPM result of a valid DAG every task has one record, whose
\* EarliestStart is 0 for a task without dependencies and otherwise the maximum
\* EarliestFinish of its dependencies, and whose EarliestFinish is EarliestStart
\* plus the duration of the task.
C6_ForwardPassEquations ==
    (CpmDone /\ IsValidDAG(job)) =>
        /\ OneRecordPerTask(result)
        /\ \A id \in TaskIDs :
             /\ StartIn(result, id) =
                    IF DepsOf(job, id) = {} THEN 0
                    ELSE SetMax({FinishIn(result, d) : d \in DepsOf(job, id)})
             /\ FinishIn(result, id) = StartIn(result, id) + job.Tasks[id].Duration

C6_Witness ==
    /\ CpmDone /\ IsValidDAG(job)
    /\ \E id \in TaskIDs :
         /\ Len(job.Tasks[id].Dependencies) = 2
         /\ FinishIn(result, job.Tasks[id].Dependencies[1]) >
                FinishIn(result, job.Tasks[id].Dependencies[2])

\* C7: in the CPM result of a valid DAG no task finishes before any of its
\* dependencies, and MinCompletionTime is the maximum EarliestFinish of all tasks.
C7_FinishMonotoneAndCompletionIsMax ==
    (CpmDone /\ IsValidDAG(job)) =>
        /\ \A id \in TaskIDs : \A d \in DepsOf(job, id) :
               FinishIn(result, id) >= FinishIn(result, d)
        /\ result.MinCompletionTime = SetMax({FinishIn(result, id) : id \in TaskIDs})

C7_Witness ==
    /\ CpmDone /\ IsValidDAG(job)
    /\ \E id \in TaskIDs : DepsOf(job, id) # {}
    /\ \E id \in TaskIDs : FinishIn(result, id) < result.MinCompletionTime

\* C8: the critical path of the CPM result of a valid DAG has durations that sum
\* to MinCompletionTime, and each consecutive pair (dep, task) of it is a
\* dependency edge with EarliestFinish(dep) = EarliestStart(task).
C8_CriticalPathSumsToCompletion ==
    (CpmDone /\ IsValidDAG(job)) =>
        LET cp == result.CriticalPath
        IN /\ SeqToSet(cp) \subseteq TaskIDs
           /\ SumDurations(job, cp) = result.MinCompletionTime
           /\ \A i \in 1..(Len(cp) - 1) :
                /\ cp[i] \in DepsOf(job, cp[i + 1])
                /\ FinishIn(result, cp[i]) = StartIn(result, cp[i + 1])

C8_Witness ==
    /\ CpmDone /\ IsValidDAG(job)
    /\ Len(result.CriticalPath) >= 2
    /\ \E id \in TaskIDs :
         /\ Len(job.Tasks[id].Dependencies) = 2
         /\ id \in SeqToSet(result.CriticalPath)
         /\ job.Tasks[id].Dependencies[1] \notin SeqToSet(result.CriticalPath)

\* C9: the critical path of the CPM result of a valid DAG starts at a task without
\* dependencies and ends at a task whose EarliestFinish is MinCompletionTime; the
\* backward trace stops only at a task without dependencies.
C9_CriticalPathFromSourceToLastFinisher ==
    /\ (CpmDone /\ IsValidDAG(job)) =>
           LET cp == result.CriticalPath
           IN /\ cp # <<>>
              /\ SeqToSet(cp) \subseteq TaskIDs
              /\ DepsOf(job, cp[1]) = {}
              /\ FinishIn(result, cp[Len(cp)]) = result.MinCompletionTime
    /\ (pc = "return" /\ IsValidDAG(job)) =>
           /\ currentID \in TaskIDs
           /\ ~HasDependencies(job.Tasks[currentID])

C9_Witness ==
    /\ CpmDone /\ IsValidDAG(job)
    /\ Len(result.CriticalPath) >= 2
    /\ \E a, b \in TaskIDs : a # b /\ FinishIn(result, a) = result.MinCompletionTime
                                  /\ FinishIn(result, b) = result.MinCompletionTime

\* C10: for the job A(3), B(2), C(4), D(5, {A}), E(2, {B, C}), F(3, {D, E}) and at
\* least 6 workers Schedule reports completion time 11, critical path A, D, F, the
\* times A(0,3) B(0,2) C(0,4) D(3,8) E(4,6) F(8,11) and execution order A..F.
C10_WorkedExample ==
    (job = ExampleJob /\ workers >= 6 /\ pc = "done") =>
        /\ err = "nil"
        /\ result.MinCompletionTime = 11
        /\ result.CriticalPath = <<1, 4, 6>>
        /\ result.TaskSchedules =
               << TaskSchedule(1, 0, 3), TaskSchedule(2, 0, 2), TaskSchedule(3, 0, 4),
                  TaskSchedule(4, 3, 8), TaskSchedule(5, 4, 6), TaskSchedule(6, 8, 11) >>
        /\ result.ExecutionOrder = <<1, 2, 3, 4, 5, 6>>

C10_Witness ==
    job = ExampleJob /\ workers = 6 /\ pc = "done" /\ result # NoResult

----------------------------------------------------------------------------
\* The two engines as functions of the job and the worker count: the forward pass
\* and the event loop run to their end with every map visited in ascending order
\* of the IDs.

RECURSIVE Ascending(_)
Ascending(S) ==
    IF S = {} THEN <<>> ELSE <<SetMin(S)>> \o Ascending(S \ {SetMin(S)})

\* for _, id := range order { est[id] = ...; eft[id] = est[id] + task.Duration }
RECURSIVE ForwardPass(_, _, _)
ForwardPass(s, j, ord) ==
    IF ord = <<>> THEN s
    ELSE LET id == Head(ord)
             start == EarliestStartOf(j.Tasks[id], s.eft)
         IN ForwardPass([est |-> MapPut(s.est, id, start),
                         eft |-> MapPut(s.eft, id, start + j.Tasks[id].Duration)],
                        j, Tail(ord))

\* est, eft and minCompletion of scheduleUnlimited for the topological order ord.
CpmRun(j, ord) ==
    LET s == ForwardPass([est |-> EmptyMap, eft |-> EmptyMap], j, ord)
    IN [est |-> s.est, eft |-> s.eft,
        minCompletion |-> MaxOver(s.eft, Ascending(DOMAIN s.eft), 0)]

\* The `for { ... }` of scheduleLimited from the state s to the break.
RECURSIVE SimLoop(_, _, _, _)
SimLoop(s, j, w, rev) ==
    LET d == Assign([ready |-> s.ready, startTime |-> s.startTime,
                     running |-> s.running, executionOrder |-> s.executionOrder],
                    SortStrings(Ascending(s.ready)), j, w, s.currentTime)
    IN IF Len(d.running) = 0
       THEN [s EXCEPT !.ready = d.ready, !.startTime = d.startTime,
                      !.running = d.running, !.executionOrder = d.executionOrder]
       ELSE LET now == MinFinish(Tail(d.running), d.running[1].finishTime)
                c == Complete([finished |-> s.finished, ready |-> d.ready,
                               newRunning |-> <<>>],
                              d.running, j, rev, now)
            IN SimLoop([ready |-> c.ready, startTime |-> d.startTime,
                        finished |-> c.finished, running |-> c.newRunning,
                        executionOrder |-> d.executionOrder, currentTime |-> now],
                       j, w, rev)

\* finished, startTime, executionOrder and currentTime of scheduleLimited at the
\* end of its event loop.
SimRun(j, w) ==
    SimLoop([ready |-> {id \in DOMAIN j.Tasks : ~HasDependencies(j.Tasks[id])},
             startTime |-> EmptyMap, finished |-> EmptyMap, running |-> <<>>,
             executionOrder |-> <<>>, currentTime |-> 0],
            j, w, BuildReverse(EmptyMap, j, Ascending(DOMAIN j.Tasks)))

\* Schedule has returned a result of the event loop.
SimDone == pc = "done" /\ mode = "limited" /\ err = "nil"

----------------------------------------------------------------------------
\* C11: for every valid DAG and every worker count from 1 to taskCount - 1 the
\* completion time the event loop reports is at least the completion time of the
\* CPM forward pass on the same job; for the job A..F and 2 workers it is at
\* least 11.
C11_LimitedCompletionAtLeastCpm ==
    (SimDone /\ IsValidDAG(job)) =>
        /\ 1 <= workers /\ workers < TaskCount(job)
        /\ result.MinCompletionTime >= CpmRun(job, order).minCompletion
        /\ (job = ExampleJob /\ workers = 2) => result.MinCompletionTime >= 11

C11_Witness ==
    /\ SimDone /\ IsValidDAG(job)
    /\ \E id \in TaskIDs : HasDependencies(job.Tasks[id])
    /\ result.MinCompletionTime > CpmRun(job, order).minCompletion

----------------------------------------------------------------------------
\* The completion time Schedule reports for job j and w >= 1 workers, ord being
\* the topological order of j: the forward pass if w >= taskCount, else the
\* event loop.
CompletionOf(j, w, ord) ==
    IF w >= TaskCount(j) THEN CpmRun(j, ord).minCompletion ELSE SimRun(j, w).currentTime

\* Schedule has returned a result for a valid DAG.
ScheduleDone == pc = "done" /\ err = "nil" /\ IsValidDAG(job)

\* C12 as stated: for every valid DAG and all worker counts 1 <= w1 <= w2 the
\* completion time reported for w2 workers is at most the one reported for w1
\* workers.  Here w1 is the worker count of the run and w2 any larger one.
C12_AsStated_MonotoneInWorkers ==
    ScheduleDone =>
        \A w2 \in workers..(TaskCount(job) + 1) :
            CompletionOf(job, w2, order) <= result.MinCompletionTime

\* C12, amended: the completion time Schedule reports is CompletionOf of its
\* arguments, and for all worker counts 1 <= w1 <= w2 with w1 = 1 or
\* w2 >= taskCount the completion time for w2 workers is at most the one for w1
\* workers: one worker is never faster and taskCount workers are never slower
\* than any other worker count.
C12_MonotoneAtTheEnds ==
    ScheduleDone =>
        /\ result.MinCompletionTime = CompletionOf(job, workers, order)
        /\ \A w2 \in workers..(TaskCount(job) + 1) :
               (workers = 1 \/ w2 >= TaskCount(job)) =>
                   CompletionOf(job, w2, order) <= result.MinCompletionTime
        /\ \A w1 \in 1..workers :
               (w1 = 1 \/ workers >= TaskCount(job)) =>
                   result.MinCompletionTime <= CompletionOf(job, w1, order)

C12_Witness ==
    /\ ScheduleDone /\ job = AnomalyJob /\ workers = 3
    /\ result.MinCompletionTime < CompletionOf(job, 1, order)
    /\ CompletionOf(job, 6, order) < result.MinCompletionTime

\* C13: for every valid DAG the event loop run with taskCount workers or more
\* ends at the completion time of the CPM forward pass and gives every task the
\* start and the finish the forward pass gives it.
C13_EventLoopAgreesWithCpmAtBoundary ==
    (CpmDone /\ IsValidDAG(job)) =>
        LET sim == SimRun(job, workers)
        IN /\ workers >= TaskCount(job)
           /\ sim.currentTime = result.MinCompletionTime
           /\ DOMAIN sim.startTime = TaskIDs
           /\ DOMAIN sim.finished = TaskIDs
           /\ \A id \in TaskIDs :
                  /\ sim.startTime[id] = StartIn(result, id)
                  /\ sim.finished[id] = FinishIn(result, id)
                  /\ sim.startTime[id] = est[id]
                  /\ sim.finished[id] = eft[id]

C13_Witness ==
    /\ CpmDone /\ IsValidDAG(job) /\ workers = TaskCount(job)
    /\ \E id \in TaskIDs : Cardinality(DepsOf(job, id)) = 2
    /\ \E a, b \in TaskIDs : SimRun(job, workers).startTime[a] = 0
                               /\ SimRun(job, workers).startTime[b] > 0
    /\ SimRun(job, workers).currentTime = result.MinCompletionTime

\* findCriticalPath from the end task on: p holds the path traced so far, its head
\* being currentID.
RECURSIVE TracePath(_, _, _, _)
TracePath(j, s, f, p) ==
    LET cur == Head(p)
        depID == FirstCriticalDep(j.Tasks[cur].Dependencies, s, f, cur)
    IN IF cur \notin DOMAIN j.Tasks THEN p
       ELSE IF ~HasDependencies(j.Tasks[cur]) \/ depID = NoID THEN p
       ELSE TracePath(j, s, f, <<depID>> \o p)

\* The critical paths findCriticalPath can return for the maps s and f and the
\* completion time m, one for every iteration order of `range eft`.
CriticalPaths(j, s, f, m) ==
    {TracePath(j, s, f, <<EndTask(f, iter, m)>>) : iter \in Orderings(DOMAIN f)}

\* C14 as stated: for the same job and worker count every invocation of Schedule
\* in CPM mode returns the same critical path, whatever the iteration order of
\* the maps: the path this invocation returned is the only one findCriticalPath
\* can return, also when several tasks tie for the largest finish.
C14_AsStated_CriticalPathDeterministic ==
    (CpmDone /\ IsValidDAG(job)) =>
        /\ result.CriticalPath \in CriticalPaths(job, est, eft, minCompletion)
        /\ \A p \in CriticalPaths(job, est, eft, minCompletion) :
               p = result.CriticalPath

\* What Schedule returns for job j and w >= 1 workers apart from the critical
\* path, every map visited in ascending order of the IDs.
ResultOf(j, w) ==
    IF w >= TaskCount(j)
    THEN LET ord == LexTopo(j, <<>>)
             c == CpmRun(j, ord)
             scheds == buildSortedSchedules(ord, c.est, c.eft)
         IN ScheduleResult(j.Name, w, c.minCompletion, scheds, TaskIDsOf(scheds), <<>>)
    ELSE LET r == SimRun(j, w)
             scheds == LimitedSchedules(r.startTime, r.finished,
                                        Ascending(DOMAIN r.startTime))
         IN ScheduleResult(j.Name, w, r.currentTime, scheds, TaskIDsOf(scheds), <<>>)

\* C15: apart from the critical path, the result of Schedule (completion time,
\* start and finish of every task, order of TaskSchedules, ExecutionOrder) is
\* the same for every iteration order of the task map, of the ready set and of
\* the start-time map and every order of the reverse-dependency lists, in both
\* modes: it is ResultOf the job and the worker count, and the event loop ends
\* in the state of SimRun.
C15_ResultIndependentOfMapOrder ==
    ScheduleDone =>
        /\ [result EXCEPT !.CriticalPath = <<>>] = ResultOf(job, workers)
        /\ mode = "limited" =>
               LET r == SimRun(job, workers)
               IN /\ startTime = r.startTime
                  /\ finished = r.finished
                  /\ currentTime = r.currentTime
                  /\ executionOrder = r.executionOrder

\* A run whose reverse-dependency lists are not in ascending order, and one whose
\* records tie on the start time.
C15_Witness ==
    /\ ScheduleDone /\ mode = "limited"
    /\ reverse # BuildReverse(EmptyMap, job, Ascending(TaskIDs))
    /\ \E a, b \in TaskIDs : a # b /\ startTime[a] = startTime[b]
    /\ [result EXCEPT !.CriticalPath = <<>>] = ResultOf(job, workers)

\* C16: in the event loop no task starts before its dependencies are done: at
\* every position of the loop every task with a start time has every dependency
\* finished at or before that start time, a ready task has every dependency
\* finished, and in every result of the loop the start of a task is at least the
\* finish of each of its dependencies.
C16_NoStartBeforeDependenciesFinish ==
    mode = "limited" =>
        /\ \A t \in DOMAIN startTime : \A d \in DepsOf(job, t) :
               d \in DOMAIN finished /\ finished[d] <= startTime[t]
        /\ \A t \in ready : DepsOf(job, t) \subseteq DOMAIN finished
        /\ SimDone =>
               /\ OneRecordPerTask(result)
               /\ \A t \in TaskIDs : \A d \in DepsOf(job, t) :
                      StartIn(result, t) >= FinishIn(result, d)

\* A result in which a task with two dependencies starts when the later one
\* finishes, the earlier one having finished before.
C16_Witness ==
    /\ SimDone /\ IsValidDAG(job)
    /\ \E t \in TaskIDs : \E d1, d2 \in DepsOf(job, t) :
           /\ FinishIn(result, d1) < FinishIn(result, d2)
           /\ StartIn(result, t) = FinishIn(result, d2)

\* The tasks a result has running at the instant i: start <= i < finish.
RunningAt(r, i) ==
    {k \in DOMAIN r.TaskSchedules :
        r.TaskSchedules[k].EarliestStart <= i /\ i < r.TaskSchedules[k].EarliestFinish}

\* C17: the worker capacity is never exceeded: at every position of the event
\* loop the number of running slots is at most workers, and in every result of
\* the loop at most workers tasks have start <= instant < finish, at every
\* instant.
C17_WorkerCapacityNeverExceeded ==
    mode = "limited" =>
        /\ Len(running) <= workers
        /\ SimDone =>
               \A i \in 0..result.MinCompletionTime :
                   Cardinality(RunningAt(result, i)) <= workers

\* A result with two workers or more in which, at some instant, every worker is
\* busy while a task without dependencies has not started yet.
C17_Witness ==
    /\ SimDone /\ workers >= 2
    /\ \E i \in 0..result.MinCompletionTime :
           /\ Cardinality(RunningAt(result, i)) = workers
           /\ \E t \in TaskIDs : ~HasDependencies(job.Tasks[t]) /\ StartIn(result, t) > i

\* The tasks a dispatch step starts, and the step itself.
Started == ready \ ready'
DispatchStep == pc = "dispatch" /\ pc' = "advance"

\* C18: dispatch is greedy and lexicographic.  A dispatch step starts
\* min(free workers, ready tasks) tasks; every task it starts is smaller than every
\* task it leaves ready, gets the current clock as its start time and a slot
\* finishing at clock + duration, and the started tasks are appended to the
\* execution order in ascending order; after the step, when the clock is about to
\* advance, the ready set is empty or all workers are occupied.
C18_DispatchGreedyLexicographic ==
    /\ []((mode = "limited" /\ pc = "advance") =>
              (ready = {} \/ Len(running) = workers))
    /\ [][DispatchStep =>
             /\ Started \subseteq ready
             /\ ready' = ready \ Started
             /\ Cardinality(Started) =
                    IF workers - Len(running) < Cardinality(ready)
                    THEN workers - Len(running) ELSE Cardinality(ready)
             /\ \A t \in Started : \A u \in ready' : t < u
             /\ DOMAIN startTime' = DOMAIN startTime \cup Started
             /\ \A t \in Started : startTime'[t] = currentTime
             /\ \A t \in DOMAIN startTime \ Started : startTime'[t] = startTime[t]
             /\ executionOrder' = executionOrder \o Ascending(Started)
             /\ running' = running \o
                    [i \in 1..Cardinality(Started) |->
                        Slot(Ascending(Started)[i],
                             currentTime + job.Tasks[Ascending(Started)[i]].Duration)]
             /\ currentTime' = currentTime
        ]_vars

\* After a dispatch at a clock value above 0 a task started at that clock value,
\* every worker is occupied and a larger task is left ready.
C18_Witness ==
    /\ mode = "limited" /\ pc = "advance" /\ currentTime > 0
    /\ Len(running) = workers
    /\ \E t \in DOMAIN startTime : \E u \in ready :
           startTime[t] = currentTime /\ t < u

\* The finish times of the records of a result.
FinishTimes(r) == {r.TaskSchedules[k].EarliestFinish : k \in DOMAIN r.TaskSchedules}

\* C19: in constrained mode the reported MinCompletionTime is the value of the
\* clock when the event loop ends, and it is the largest finish time over the task
\* schedules of the result (every task of a valid DAG having a record).
C19_LimitedCompletionIsFinalClockAndMaxFinish ==
    (SimDone /\ IsValidDAG(job)) =>
        /\ result.MinCompletionTime = currentTime
        /\ OneRecordPerTask(result)
        /\ result.MinCompletionTime = SetMax(FinishTimes(result))
        /\ \A id \in TaskIDs : FinishIn(result, id) = finished[id]

\* A result in which a task finishes at the completion time although another
\* task started later and finished earlier.
C19_Witness ==
    /\ SimDone /\ IsValidDAG(job)
    /\ result.MinCompletionTime = currentTime
    /\ \E a, b \in TaskIDs :
           /\ StartIn(result, a) < StartIn(result, b)
           /\ FinishIn(result, b) < FinishIn(result, a)
           /\ FinishIn(result, a) = result.MinCompletionTime

\* Positions inside scheduleUnlimited and inside scheduleLimited, after the call
\* of topologicalOrder.
CpmPCs == {"forward", "build", "find_end", "trace", "return", "panic"}
SimPCs == {"sim_init", "dispatch", "advance", "complete", "sim_result"}

\* C20: Schedule runs the CPM engine exactly when workers >= taskCount and the
\* event loop exactly when 0 < workers < taskCount; the critical path of the
\* result is non-empty in the first case and empty in the second, the other
\* engine has left no trace, and the Workers field of the result is the worker
\* count passed in.
C20_ModeDecision ==
    /\ mode = "unlimited" <=> (pc # "Schedule" /\ workers >= TaskCount(job))
    /\ mode = "limited" <=>
           (pc # "Schedule" /\ 0 < workers /\ workers < TaskCount(job))
    /\ pc \in CpmPCs => mode = "unlimited"
    /\ pc \in SimPCs => mode = "limited"
    /\ CpmDone =>
           /\ result.CriticalPath # <<>>
           /\ result.Workers = workers
           /\ DOMAIN eft = TaskIDs /\ startTime = EmptyMap
           /\ result.MinCompletionTime = minCompletion
    /\ SimDone =>
           /\ result.CriticalPath = <<>>
           /\ result.Workers = workers
           /\ DOMAIN startTime = TaskIDs /\ eft = EmptyMap
           /\ result.MinCompletionTime = currentTime

\* The boundary: a job of at least two tasks and exactly taskCount workers.
C20_Witness ==
    /\ CpmDone /\ TaskCount(job) >= 2 /\ workers = TaskCount(job)
    /\ result.CriticalPath # <<>>
    /\ result.Workers = TaskCount(job)

\* C21: in both modes the TaskSchedules of a result are sorted by start time
\* ascending, records of the same start time by task ID ascending, and
\* ExecutionOrder is the sequence of the task IDs of TaskSchedules.
C21_SchedulesSortedByStartThenID ==
    ScheduleDone =>
        /\ \A i, k \in DOMAIN result.TaskSchedules :
               i < k =>
                   LET a == result.TaskSchedules[i]
                       b == result.TaskSchedules[k]
                   IN \/ a.EarliestStart < b.EarliestStart
                      \/ a.EarliestStart = b.EarliestStart /\ a.TaskID < b.TaskID
        /\ Len(result.ExecutionOrder) = Len(result.TaskSchedules)
        /\ \A i \in DOMAIN result.TaskSchedules :
               result.ExecutionOrder[i] = result.TaskSchedules[i].TaskID

\* A result of the event loop in which two records tie on the start time and the
\* order by (start, ID) is not the order of the IDs.
C21_Witness ==
    /\ ScheduleDone /\ mode = "limited"
    /\ \E i \in DOMAIN result.TaskSchedules :
           /\ i + 1 \in DOMAIN result.TaskSchedules
           /\ result.TaskSchedules[i].EarliestStart =
                  result.TaskSchedules[i + 1].EarliestStart
    /\ \E i \in DOMAIN result.ExecutionOrder :
           /\ i + 1 \in DOMAIN result.ExecutionOrder
           /\ result.ExecutionOrder[i] > result.ExecutionOrder[i + 1]

\* C22: Schedule never changes its arguments: no step of a call, successful or
\* failing, in either mode, changes the name of the job, its task map, or the ID,
\* the duration or the dependency list of a task, the order of the list included.
C22_InputNeverMutated ==
    [][/\ job'.Name = job.Name
       /\ DOMAIN job'.Tasks = DOMAIN job.Tasks
       /\ \A id \in DOMAIN job.Tasks :
              /\ job'.Tasks[id].ID = job.Tasks[id].ID
              /\ job'.Tasks[id].Duration = job.Tasks[id].Duration
              /\ job'.Tasks[id].Dependencies = job.Tasks[id].Dependencies
       /\ workers' = workers]_vars

\* A call that has returned a result for a job with a dependency list that is
\* not in ascending order.
C22_Witness ==
    /\ pc = "done" /\ err = "nil" /\ result # NoResult
    /\ \E id \in TaskIDs :
           LET deps == job.Tasks[id].Dependencies
           IN Len(deps) = 2 /\ deps[1] > deps[2]

\* C23: no preemption.  In every result of either mode the finish of a record
\* is its start plus the duration of its task.  In the event loop a running slot
\* is scheduled to finish at the start of its task plus its duration, it is still
\* running (not finished) and its finish is not before the clock, and a finished
\* task left its slot at the clock value start + duration.
C23_NoPreemption ==
    /\ ScheduleDone =>
           \A i \in DOMAIN result.TaskSchedules :
               LET rec == result.TaskSchedules[i]
               IN rec.EarliestFinish = rec.EarliestStart + job.Tasks[rec.TaskID].Duration
    /\ mode = "limited" =>
           /\ \A i \in DOMAIN running :
                  /\ running[i].taskID \in DOMAIN startTime
                  /\ running[i].taskID \notin DOMAIN finished
                  /\ running[i].finishTime = startTime[running[i].taskID]
                                             + job.Tasks[running[i].taskID].Duration
                  /\ running[i].finishTime >= currentTime
           /\ \A t \in DOMAIN finished :
                  /\ t \in DOMAIN startTime
                  /\ finished[t] = startTime[t] + job.Tasks[t].Duration
                  /\ finished[t] <= currentTime
                  /\ \A i \in DOMAIN running : running[i].taskID # t

\* The completion step has just removed a task of duration 2 or more from its
\* slot while another task keeps running.
C23_Witness ==
    /\ mode = "limited" /\ pc = "dispatch" /\ IsValidDAG(job)
    /\ running # <<>>
    /\ \E t \in DOMAIN finished :
           /\ finished[t] = currentTime
           /\ job.Tasks[t].Duration >= 2
           /\ startTime[t] = currentTime - job.Tasks[t].Duration

\* The steps of the event loop that move the clock and that complete tasks.
AdvanceStep == pc = "advance" /\ pc' = "complete"
CompleteStep == pc = "complete" /\ pc' = "dispatch"
SlotFinishTimes(slots) == {slots[i].finishTime : i \in DOMAIN slots}

\* C24: the clock of the event loop is 0 when the loop starts and never negative;
\* every advance step moves it to the smallest scheduled finish among the
\* running slots, which is larger than the clock before; no other step of the
\* loop changes it; the completion step removes exactly the running slots whose
\* scheduled finish equals the clock, at least one, and every slot it leaves has
\* a scheduled finish larger than the clock.
C24_ClockStrictlyIncreases ==
    /\ [](mode = "limited" =>
             /\ currentTime >= 0
             /\ (pc = "dispatch" /\ startTime = EmptyMap) => currentTime = 0)
    /\ [][/\ AdvanceStep =>
                /\ running # <<>>
                /\ currentTime' = SetMin(SlotFinishTimes(running))
                /\ currentTime' > currentTime
          /\ CompleteStep =>
                /\ running' = SelectSeq(running,
                                        LAMBDA sl : sl.finishTime # currentTime)
                /\ Len(running') < Len(running)
                /\ \A i \in DOMAIN running' : running'[i].finishTime > currentTime
          /\ (pc \in SimPCs /\ pc # "sim_init" /\ ~AdvanceStep) =>
                currentTime' = currentTime
         ]_vars

\* The clock has advanced for the second time at least, to the finish of one of
\* two running slots that finish at different times.
C24_Witness ==
    /\ mode = "limited" /\ pc = "complete"
    /\ finished # EmptyMap
    /\ Len(running) >= 2
    /\ Cardinality(SlotFinishTimes(running)) >= 2
    /\ currentTime = SetMin(SlotFinishTimes(running))

\* The tasks in the running slots.
RunningIDs == {running[i].taskID : i \in DOMAIN running}

\* C25: at every position of the event loop a task is in at most one of ready,
\* running and finished; a ready task has every dependency finished and has
\* never been started; a started task is running or finished; no task is in two
\* slots and no task is dispatched twice.
C25_ReadyRunningFinishedDisjoint ==
    mode = "limited" =>
        /\ ready \cap RunningIDs = {}
        /\ ready \cap DOMAIN finished = {}
        /\ RunningIDs \cap DOMAIN finished = {}
        /\ \A t \in ready :
               /\ t \in TaskIDs
               /\ DepsOf(job, t) \subseteq DOMAIN finished
               /\ t \notin DOMAIN startTime
        /\ DOMAIN startTime = RunningIDs \cup DOMAIN finished
        /\ Cardinality(RunningIDs) = Len(running)
        /\ NoDuplicates(executionOrder)
        /\ SeqToSet(executionOrder) = DOMAIN startTime

\* A position of the loop at which the three sets are all non-empty and a task
\* with dependencies is ready.
C25_Witness ==
    /\ mode = "limited" /\ IsValidDAG(job)
    /\ running # <<>> /\ finished # EmptyMap
    /\ \E t \in ready : HasDependencies(job.Tasks[t])

\* Positions of the `for { ... }` of scheduleLimited, and a measure of the work
\* the loop has left: the unfinished tasks, and within an iteration the steps to
\* its end.
LoopPCs == {"dispatch", "advance", "complete"}
StepsLeft ==
    CASE pc = "dispatch" -> 3
      [] pc = "advance"  -> 2
      [] pc = "complete" -> 1
      [] OTHER           -> 0
LoopMeasure == 4 * (Cardinality(TaskIDs) - Cardinality(DOMAIN finished)) + StepsLeft

\* C26: for every valid DAG and 0 < workers < taskCount the event loop
\* terminates: the measure of the work left is never negative and every step of
\* the loop lowers it, so the loop is left after at most taskCount iterations;
\* when it is left no task is running or ready, every task has been started and
\* finished, and the result holds exactly one record for every task.
C26_EventLoopTerminatesWithEveryTaskDone ==
    /\ []((mode = "limited" /\ IsValidDAG(job)) =>
             /\ DOMAIN finished \subseteq TaskIDs
             /\ LoopMeasure >= 0
             /\ pc \in {"sim_result", "done"} =>
                    /\ running = <<>> /\ ready = {}
                    /\ DOMAIN startTime = TaskIDs
                    /\ DOMAIN finished = TaskIDs
             /\ SimDone =>
                    /\ OneRecordPerTask(result)
                    /\ \A id \in TaskIDs :
                           /\ StartIn(result, id) = startTime[id]
                           /\ FinishIn(result, id) = finished[id])
    /\ [][(IsValidDAG(job) /\ pc \in LoopPCs) =>
              /\ LoopMeasure' < LoopMeasure
              /\ pc' \in LoopPCs \cup {"sim_result"}]_vars

\* The loop has been left after three iterations or more, some with several
\* completions.
C26_Witness ==
    /\ mode = "limited" /\ IsValidDAG(job) /\ pc = "sim_result"
    /\ Cardinality({finished[t] : t \in DOMAIN finished}) >= 3
    /\ Cardinality({finished[t] : t \in DOMAIN finished}) < Cardinality(TaskIDs)

\* C27: in constrained mode, for every valid DAG, the list of the task IDs in the
\* order the event loop dispatched them is the ExecutionOrder of the result,
\* which is read off the records sorted by (start time, ID).
C27_DispatchOrderIsReturnedOrder ==
    (SimDone /\ IsValidDAG(job)) =>
        /\ executionOrderSorted = TaskIDsOf(result.TaskSchedules)
        /\ result.ExecutionOrder = executionOrderSorted
        /\ executionOrder = result.ExecutionOrder

\* A result whose dispatch order is not the order of the IDs and in which two
\* tasks were dispatched at the same clock value.
C27_Witness ==
    /\ SimDone /\ IsValidDAG(job)
    /\ executionOrder = result.ExecutionOrder
    /\ \E i \in DOMAIN executionOrder :
           /\ i + 1 \in DOMAIN executionOrder
           /\ executionOrder[i] > executionOrder[i + 1]
    /\ \E a, b \in TaskIDs : a # b /\ startTime[a] = startTime[b]

\* C28: with exactly one worker and at least two tasks of a valid DAG the event
\* loop runs the tasks one after another: the execution order of the result is
\* the order topologicalOrder returned, the first task starts at 0, every other
\* task starts when the task before it finishes, and the completion time is the
\* sum of the durations of all tasks.
C28_OneWorkerRunsInTopologicalOrder ==
    (SimDone /\ IsValidDAG(job) /\ workers = 1 /\ TaskCount(job) >= 2) =>
        /\ result.ExecutionOrder = order
        /\ executionOrder = order
        /\ StartIn(result, order[1]) = 0
        /\ \A i \in 1..(Len(order) - 1) :
               StartIn(result, order[i + 1]) = FinishIn(result, order[i])
        /\ result.MinCompletionTime = SumDurations(job, order)
        /\ result.MinCompletionTime = FinishIn(result, order[Len(order)])

\* A one-worker result for three tasks or more whose order is not the order of
\* the IDs.
C28_Witness ==
    /\ SimDone /\ IsValidDAG(job) /\ workers = 1 /\ TaskCount(job) >= 3
    /\ result.ExecutionOrder = order
    /\ \E i \in 1..(Len(order) - 1) : order[i] > order[i + 1]
    /\ result.MinCompletionTime = SumDurations(job, order)

----------------------------------------------------------------------------
\* GraphValidator.Validate, as a function of the job and of the orders in which
\* its loops visit the maps.  An error is named by its kind; "nil" is no error.

\* for _, depID := range task.Dependencies { self? undefined? }
RECURSIVE ValidateDependencies(_, _, _)
ValidateDependencies(j, id, deps) ==
    IF deps = <<>> THEN "nil"
    ELSE IF Head(deps) = id THEN "self"
    ELSE IF Head(deps) \notin DOMAIN j.Tasks THEN "undefined"
    ELSE ValidateDependencies(j, id, Tail(deps))

\* The body of `for id, task := range job.Tasks`.
ValidateTask(j, id) ==
    IF j.Tasks[id].Duration <= 0 THEN "duration"
    ELSE ValidateDependencies(j, id, j.Tasks[id].Dependencies)

\* The loop over the tasks in the order iter: the first error met.
RECURSIVE ValidateTasks(_, _)
ValidateTasks(j, iter) ==
    IF iter = <<>> THEN "nil"
    ELSE LET e == ValidateTask(j, Head(iter))
         IN IF e # "nil" THEN e ELSE ValidateTasks(j, Tail(iter))

\* for _, neighbor := range adjacency[current] { indegree[neighbor]--; ... }
RECURSIVE VisitNeighbors(_, _)
VisitNeighbors(s, neighbors) ==
    IF neighbors = <<>> THEN s
    ELSE LET n == Head(neighbors)
             deg == s.indegree[n] - 1
         IN VisitNeighbors([s EXCEPT !.indegree[n] = deg,
                                     !.queue = IF deg = 0 THEN Append(@, n) ELSE @],
                           Tail(neighbors))

\* for len(queue) > 0 { current := queue[0]; queue = queue[1:]; visitedCount++ ... }
RECURSIVE VisitQueue(_, _)
VisitQueue(s, adj) ==
    IF s.queue = <<>> THEN s
    ELSE VisitQueue(VisitNeighbors([s EXCEPT !.queue = Tail(@),
                                             !.visitedCount = @ + 1],
                                    MapGet(adj, Head(s.queue), <<>>)),
                    adj)

\* Mutant: the test written as `visitedCount > job.TaskCount()`.
CycleFoundOnlyIfMore(visitedCount, j) == visitedCount > TaskCount(j)

\* if visitedCount != job.TaskCount() { return &CycleError{...} }
CycleFound(visitedCount, j) == visitedCount # TaskCount(j)

\* detectCycle for the graph g built from the task map and the queue seeded from
\* its zero in-degree tasks.
detectCycle(j, g, seed) ==
    LET s == VisitQueue([queue |-> seed, indegree |-> g.indegree, visitedCount |-> 0],
                        g.adjacency)
    IN IF CycleFound(s.visitedCount, j) THEN "cycle" ELSE "nil"

\* What detectCycle can return: the graph is built in any order of the task map
\* (the same statements as in topologicalOrder), the queue seeded in any order
\* of indegree.
DetectCycleOutcomes(j) ==
    UNION {{detectCycle(j, g, seed)
               : seed \in {SelectSeq(iter, LAMBDA id : g.indegree[id] = 0)
                               : iter \in Orderings(DOMAIN j.Tasks)}}
           : g \in {BuildGraph([indegree  |-> [id \in DOMAIN j.Tasks |-> 0],
                                adjacency |-> EmptyMap], j, iter)
                       : iter \in Orderings(DOMAIN j.Tasks)}}

\* What Validate can return for the job j.
ValidateOutcomes(j) ==
    IF TaskCount(j) = 0 THEN {"empty"}
    ELSE UNION {IF e # "nil" THEN {e} ELSE DetectCycleOutcomes(j)
                : e \in {ValidateTasks(j, iter) : iter \in Orderings(DOMAIN j.Tasks)}}

\* Validate accepts the job, whatever the order of its loops.
Accepted(j) == ValidateOutcomes(j) = {"nil"}

\* C29: the validator and the scheduler agree.  For every job Validate accepts
\* and every positive worker count Schedule returns a result and no error, and
\* it does not panic; for a job with a cycle, a self-dependency or an undefined
\* dependency Schedule returns the error of topologicalOrder and no result,
\* neither engine has written anything, and Validate does not accept the job.
C29_ValidatorAndSchedulerAgree ==
    workers > 0 =>
        /\ pc = "panic" => ~Accepted(job)
        /\ pc = "done" =>
               /\ Accepted(job) =>
                      /\ err = "nil"
                      /\ result # NoResult
                      /\ IsValidDAG(job)
               /\ ~IsValidDAG(job) =>
                      /\ err = "cycle"
                      /\ result = NoResult
                      /\ Len(order) < TaskCount(job)
                      /\ est = EmptyMap /\ eft = EmptyMap
                      /\ startTime = EmptyMap /\ finished = EmptyMap
                      /\ "nil" \notin ValidateOutcomes(job)

\* Schedule has returned a result for an accepted job of three tasks, one of
\* them with two dependencies.
C29_Witness ==
    /\ pc = "done" /\ workers > 0 /\ err = "nil" /\ result # NoResult
    /\ TaskCount(job) = 3
    /\ \E id \in TaskIDs : Cardinality(DepsOf(job, id)) = 2
    /\ Accepted(job)

\* Schedule has returned the error of topologicalOrder for a job that Validate
\* rejects for an undefined dependency.
C29_RejectedReached ==
    /\ pc = "done" /\ workers > 0 /\ err = "cycle"
    /\ ValidateOutcomes(job) = {"undefined"}

====
